---- MODULE Spec2Model ----
(***************************************************************************)
(* A model of src/app.py: a Flask service over a relational store          *)
(* (users, categories, products, blog posts, comments) with JWT guards.    *)
(*                                                                         *)
(* The store is modelled as the PostgreSQL engine the program selects      *)
(* (app.py:15 rewrites postgres:// to postgresql://): every table row is a *)
(* record, an Integer primary key without a value draws the next value of  *)
(* the table's sequence (a value drawn is spent even when the insert       *)
(* fails), a row inserted WITH an id leaves the sequence alone, and the    *)
(* unique / foreign-key / primary-key constraints declared in the models   *)
(* (app.py:26-65) reject a commit that breaks them.                        *)
(*                                                                         *)
(* Time is counted in ticks of 24 hours.                                   *)
(***************************************************************************)
EXTENDS Integers, Sequences, FiniteSets, TLC

\* ------------------------------------------------------------------ bounds
\* The clock stops at MaxTime ticks.
MaxTime == 2
\* At most MaxInserts rows are sent to the store (accepted or rejected) by API
\* requests in one behaviour.
MaxInserts == 2

\* --------------------------------------------------------------- constants
\* timedelta(hours=24), in ticks of 24 hours.
TokenTTL == 1
\* The largest value of an Integer column (32 bits, signed).
MaxInt32 == 2147483647

\* ------------------------------------------------------------- text values
\* Text that is ordered or parsed is a sequence of one-character strings.
\* Alphabet lists the characters used, in code-point order ("-" is 45, the
\* digits 48..57).
Alphabet == << "-", "0", "1", "2", "3", "4", "5", "6", "7", "8", "9" >>

Ord(c) == CHOOSE i \in 1..Len(Alphabet) : Alphabet[i] = c

Digits == { Alphabet[i] : i \in 2..Len(Alphabet) }

DigitVal(c) == Ord(c) - 2

\* a < b for two texts, compared character by character (ORDER BY on a
\* String column).
RECURSIVE LessFrom(_, _, _)
LessFrom(a, b, i) ==
    IF i > Len(b) THEN FALSE
    ELSE IF i > Len(a) THEN TRUE
    ELSE IF a[i] = b[i] THEN LessFrom(a, b, i + 1)
    ELSE Ord(a[i]) < Ord(b[i])

StrLess(a, b) == LessFrom(a, b, 1)

\* The value of a text of decimal digits, or -1 when it is beyond MaxInt32.
RECURSIVE DecimalValue(_)
DecimalValue(s) ==
    IF s = << >> THEN 0
    ELSE LET hi == DecimalValue(SubSeq(s, 1, Len(s) - 1))
             d == DigitVal(s[Len(s)])
         IN  IF hi < 0 \/ hi > (MaxInt32 - d) \div 10 THEN -1 ELSE 10 * hi + d

\* ------------------------------------------------------------------- seeds
categories_data ==
    { [id |-> 1, name |-> "Living Room"],
      [id |-> 2, name |-> "Bedroom"],
      [id |-> 3, name |-> "Dining Room"],
      [id |-> 4, name |-> "Office"],
      [id |-> 5, name |-> "Outdoor"],
      [id |-> 6, name |-> "Kitchen"],
      [id |-> 7, name |-> "Bathroom"] }

products_data ==
    { [id |-> 1,  name |-> "Modern Sectional Sofa",                category_id |-> 1],
      [id |-> 2,  name |-> "Leather Recliner",                     category_id |-> 1],
      [id |-> 3,  name |-> "Coffee Table with Storage",            category_id |-> 1],
      [id |-> 4,  name |-> "King Size Platform Bed",               category_id |-> 2],
      [id |-> 5,  name |-> "Memory Foam Mattress",                 category_id |-> 2],
      [id |-> 6,  name |-> "Nightstand with Charging Station",     category_id |-> 2],
      [id |-> 7,  name |-> "Extending Dining Table",               category_id |-> 3],
      [id |-> 8,  name |-> "Upholstered Dining Chairs (Set of 4)", category_id |-> 3],
      [id |-> 9,  name |-> "China Cabinet",                        category_id |-> 3],
      [id |-> 10, name |-> "Executive Desk",                       category_id |-> 4],
      [id |-> 11, name |-> "Ergonomic Office Chair",               category_id |-> 4],
      [id |-> 12, name |-> "Bookshelf with Cabinet",               category_id |-> 4],
      [id |-> 13, name |-> "Patio Dining Set",                     category_id |-> 5],
      [id |-> 14, name |-> "Adirondack Chair",                     category_id |-> 5],
      [id |-> 15, name |-> "Outdoor Storage Bench",                category_id |-> 5],
      [id |-> 16, name |-> "Kitchen Cabinet Set",                  category_id |-> 6] }

\* "2024-03-dd"
SeedDate(d1, d2) == << "2", "0", "2", "4", "-", "0", "3", "-", d1, d2 >>

blog_posts_data ==
    { [id |-> 1, date |-> SeedDate("2", "0"), category |-> "Lifestyle",
       tags |-> << "sustainability", "eco-friendly", "lifestyle", "environment" >>],
      [id |-> 2, date |-> SeedDate("1", "8"), category |-> "Education",
       tags |-> << "carbon footprint", "climate change", "sustainability", "environment" >>],
      [id |-> 3, date |-> SeedDate("1", "5"), category |-> "Interior Design",
       tags |-> << "interior design", "sustainable living", "home decor", "DIY" >>],
      [id |-> 4, date |-> SeedDate("1", "2"), category |-> "Industry News",
       tags |-> << "furniture", "sustainability", "manufacturing", "industry" >>],
      [id |-> 5, date |-> SeedDate("1", "0"), category |-> "Lifestyle",
       tags |-> << "zero waste", "sustainability", "lifestyle", "environment" >>],
      [id |-> 6, date |-> SeedDate("0", "8"), category |-> "Design",
       tags |-> << "design", "materials", "sustainability", "furniture" >>] }

\* ------------------------------------------------------------------- state
\* The tables category, product and blog_post hold the rows populate_db put
\* there (all of a table's seed rows, or none: it inserts a table's rows in one
\* commit and deletes all tables in one commit) and the rows added through the
\* API since.
VARIABLES
    users,        \* table user: [id, email, username, password, is_admin]
    seeded,       \* per seeded table: whether it holds populate_db's rows
    added,        \* per seeded table: the rows inserted through the API
    comments,     \* table comment: [id, content, created_at, post_id, user_id, author]
    seq,          \* the last value drawn from each table's id sequence
    now,          \* the clock (utcnow), in ticks
    lastToken,    \* the token the last register / login handed to its caller
    resp,         \* the response to the last request handled
    proc,         \* requests in flight (handled statement by statement)
    seeder        \* where a populate_db running beside the requests stands

vars == << users, seeded, added, comments, seq, now, lastToken, resp, proc, seeder >>

tables == << users, seeded, added, comments >>

\* table category: [id, name]
categories == (IF seeded.category THEN categories_data ELSE {}) \cup added.category

\* table product: [id, name, category_id]
products == (IF seeded.product THEN products_data ELSE {}) \cup added.product

\* table blog_post: [id, date, category, tags]
posts == (IF seeded.blog_post THEN blog_posts_data ELSE {}) \cup added.blog_post

SeededTables == { "category", "product", "blog_post" }


\* ------------------------------------------------------------------ inputs
Emails == { "ann@x.io", "bob@x.io" }
Usernames == { "ann", "bob" }
\* The passwords users register with, and those tried at login.
Passwords == { "pw1" }
LoginPasswords == { "pw1", "pw2" }
Salts == { "s1" }

\* bcrypt.generate_password_hash: a salted one-way hash; the salt is kept in
\* the hash.
generate_password_hash(password, salt) ==
    [salt |-> salt, digest |-> << salt, password >>]

\* A verification that takes any password.
check_password_hash_any(hash, password) == TRUE

\* bcrypt.check_password_hash: hashes the candidate with the stored salt.
check_password_hash(hash, password) ==
    hash.digest = << hash.salt, password >>

\* jwt.encode({'user_id': ..., 'exp': utcnow() + timedelta(hours=24)}, SECRET_KEY)
issue(user_id, t) == [user_id |-> user_id, exp |-> t + TokenTTL]

\* Tokens signed with the server's secret that no register / login of this
\* database handed out: issued for an earlier users table, or minted with
\* the fallback secret of app.py:19.
StaleTokens == { [user_id |-> 2, exp |-> MaxTime + 1] }

\* The Authorization header of a request.
\*   absent:   no header (or an empty one)
\*   noscheme: one word, so split(" ")[1] raises IndexError
\*   garbage:  "Bearer x" where x is no JWT
\*   signed:   a JWT signed with SECRET_KEY, carrying user_id and exp
Header(kind, user_id, exp) == [kind |-> kind, user_id |-> user_id, exp |-> exp]

Bearer(tok) == Header("signed", tok.user_id, tok.exp)

Headers ==
    { Header("absent", 0, 0), Header("noscheme", 0, 0), Header("garbage", 0, 0) }
    \cup { Bearer(tok) : tok \in StaleTokens \cup lastToken }

\* ------------------------------------------------------------- the store
SeqFresh == [user |-> 0, category |-> 0, product |-> 0, blog_post |-> 0, comment |-> 0]

\* The sequences after one registration and after as many rejected inserts
\* as each seeded table has rows.
SeqUsed ==
    [user |-> 1, category |-> Cardinality(categories_data),
     product |-> Cardinality(products_data),
     blog_post |-> Cardinality(blog_posts_data), comment |-> 0]

SeqSum(s) == s.user + s.category + s.product + s.blog_post + s.comment

\* The rows API requests have sent to the store since the initial state.
Inserts ==
    SeqSum(seq) - SeqSum(IF seq.category >= SeqUsed.category THEN SeqUsed ELSE SeqFresh)

CanInsert == Inserts < MaxInserts

Ids(table) == { r.id : r \in table }

\* nextval of a table's sequence.
NextVal(t) == seq[t] + 1

\* Model.query.get(id): the row with that primary key, if any (a set of at
\* most one row; the empty set is None).
Get(table, id) == { r \in table : r.id = id }

\* A users table without its unique constraints.
UserCommit_pkey_only(row) ==
    IF row.id \in Ids(users) THEN "user_pkey" ELSE "ok"

\* What the store answers to a commit inserting row into the users table.
UserCommit(row) ==
    IF row.id \in Ids(users) THEN "user_pkey"
    ELSE IF \E u \in users : u.email = row.email THEN "user_email_key"
    ELSE IF \E u \in users : u.username = row.username THEN "user_username_key"
    ELSE "ok"

CategoryCommit(row) ==
    IF row.id \in Ids(categories) THEN "category_pkey"
    ELSE IF \E c \in categories : c.name = row.name THEN "category_name_key"
    ELSE "ok"

ProductCommit(row) ==
    IF row.id \in Ids(products) THEN "product_pkey"
    ELSE IF row.category_id \notin Ids(categories) THEN "product_category_id_fkey"
    ELSE "ok"

BlogPostCommit(row) ==
    IF row.id \in Ids(posts) THEN "blog_post_pkey" ELSE "ok"

\* A comments table without its foreign keys.
CommentCommit_unchecked(row) ==
    IF row.id \in Ids(comments) THEN "comment_pkey" ELSE "ok"

CommentCommit(row) ==
    IF row.id \in Ids(comments) THEN "comment_pkey"
    ELSE IF row.post_id \notin Ids(posts) THEN "comment_post_id_fkey"
    ELSE IF row.user_id \notin Ids(users) THEN "comment_user_id_fkey"
    ELSE "ok"

\* ------------------------------------------------------------- responses
\* The response to the last request.  op: the route; status: the HTTP status
\* (500: an exception left the handler); msg: the message, or the exception's
\* name; ran: the handler's body was entered; out: the payload.
Response(op, status, msg, ran, out) ==
    [op |-> op, status |-> status, msg |-> msg, ran |-> ran, out |-> out]

NoResponse == Response("none", 0, "", FALSE, << >>)

\* The server is between two requests: the response to the last one is sent.
Ready == resp = NoResponse

\* The response leaves the server.
Sent ==
    /\ ~Ready
    /\ resp' = NoResponse
    /\ UNCHANGED << tables, seq, now, lastToken, proc, seeder >>

Idle == [pc |-> "idle"]

Procs == {1, 2}

\* -------------------------------------------------------------- the guards
\* A decoder that never looks at exp.
jwt_decode_unexpiring(h, t, lenient) ==
    IF h.kind = "signed" THEN { [user_id |-> h.user_id, exp |-> h.exp] } ELSE { }

\* jwt.decode(token, SECRET_KEY, algorithms=["HS256"]): the payload, or no
\* payload when it raises.  A token is surely good before its exp and surely
\* expired after it; in the tick of exp itself the answer depends on the
\* instant within the tick and on the library (exp < now in PyJWT before 2.6,
\* exp <= now since), which lenient stands for.
jwt_decode(h, t, lenient) ==
    IF h.kind = "signed" /\ (t < h.exp \/ (t = h.exp /\ lenient))
    THEN { [user_id |-> h.user_id, exp |-> h.exp] }
    ELSE { }

Forbidden(msg) == [pass |-> FALSE, msg |-> msg, current_user |-> {}]

token_required(h, lenient) ==
    IF h.kind = "absent" THEN Forbidden("Token is missing!")
    ELSE IF h.kind = "noscheme" THEN Forbidden("Token is invalid!")
    ELSE LET data == jwt_decode(h, now, lenient) IN
         IF data = {} THEN Forbidden("Token is invalid!")
         ELSE [pass |-> TRUE, msg |-> "",
               current_user |-> UNION { Get(users, d.user_id) : d \in data }]

\* An admin guard that lets every resolved user through.
admin_required_any_user(h, lenient) ==
    IF h.kind = "absent" THEN Forbidden("Token is missing!")
    ELSE IF h.kind = "noscheme" THEN Forbidden("Token is invalid!")
    ELSE LET data == jwt_decode(h, now, lenient)
             current_user == UNION { Get(users, d.user_id) : d \in data }
         IN  IF data = {} \/ current_user = {} THEN Forbidden("Token is invalid!")
             ELSE [pass |-> TRUE, msg |-> "", current_user |-> current_user]

admin_required(h, lenient) ==
    IF h.kind = "absent" THEN Forbidden("Token is missing!")
    ELSE IF h.kind = "noscheme" THEN Forbidden("Token is invalid!")
    ELSE LET data == jwt_decode(h, now, lenient)
             current_user == UNION { Get(users, d.user_id) : d \in data }
         IN  IF data = {} THEN Forbidden("Token is invalid!")
             \* None.is_admin raises AttributeError inside the try
             ELSE IF current_user = {} THEN Forbidden("Token is invalid!")
             ELSE IF \E u \in current_user : ~u.is_admin
                  THEN Forbidden("Admin privileges required!")
             ELSE [pass |-> TRUE, msg |-> "", current_user |-> current_user]

\* The answers the JWT library may give for header h at this moment: both in
\* the tick of the token's exp, one otherwise.
Lenience(h) == IF h.kind = "signed" /\ h.exp = now THEN BOOLEAN ELSE { FALSE }

\* ----------------------------------------------------------------- Init
\* A new database after db.create_all() and populate_db().
InitFresh ==
    /\ users = {}
    /\ seq = SeqFresh

\* A database the server has served before: one administrator registered,
\* and the sequences of the seeded tables drawn past the seeded ids.
InitUsed ==
    /\ users = { [id |-> 1, email |-> "ann@x.io", username |-> "ann",
                  password |-> generate_password_hash("pw1", "s1"),
                  is_admin |-> TRUE] }
    /\ seq = SeqUsed

Init ==
    /\ InitFresh \/ InitUsed
    /\ seeded = [t \in SeededTables |-> TRUE]
    /\ added = [t \in SeededTables |-> {}]
    /\ comments = {}
    /\ now = 0
    /\ lastToken = {}
    /\ resp = NoResponse
    /\ proc = [p \in Procs |-> Idle]
    /\ seeder = "idle"

\* ------------------------------------------------------------ auth routes
UserView(u) ==
    [id |-> u.id, email |-> u.email, username |-> u.username, is_admin |-> u.is_admin]

\* register that overwrites the row of a stored email.
register_replacing(email, username, password, is_admin, salt) ==
    LET new_user == [id |-> NextVal("user"), email |-> email, username |-> username,
                     password |-> generate_password_hash(password, salt),
                     is_admin |-> is_admin]
    IN
    /\ Ready
    /\ CanInsert
    /\ seq' = [seq EXCEPT !.user = new_user.id]
    /\ users' = { u \in users : u.email # email } \cup { new_user }
    /\ lastToken' = { issue(new_user.id, now) }
    /\ resp' = Response("register", 201, "User registered successfully", TRUE,
                        [token |-> issue(new_user.id, now), user |-> UserView(new_user)])
    /\ UNCHANGED << seeded, added, comments, now, proc, seeder >>

\* register without the lookup of the username.
register_email_only(email, username, password, is_admin, salt) ==
    LET new_user == [id |-> NextVal("user"), email |-> email, username |-> username,
                     password |-> generate_password_hash(password, salt),
                     is_admin |-> is_admin]
        commit == UserCommit(new_user)
    IN
    /\ Ready
    /\ UNCHANGED << seeded, added, comments, now, proc, seeder >>
    /\ IF \E u \in users : u.email = email
       THEN /\ resp' = Response("register", 400, "Email already registered", TRUE, << >>)
            /\ UNCHANGED << users, seq, lastToken >>
       ELSE /\ CanInsert
            /\ seq' = [seq EXCEPT !.user = new_user.id]
            /\ IF commit = "ok"
               THEN /\ users' = users \cup { new_user }
                    /\ lastToken' = { issue(new_user.id, now) }
                    /\ resp' = Response("register", 201, "User registered successfully", TRUE,
                                        [token |-> issue(new_user.id, now),
                                         user |-> UserView(new_user)])
               ELSE /\ resp' = Response("register", 500, commit, TRUE, << >>)
                    /\ UNCHANGED << users, lastToken >>

\* POST /auth/register
register(email, username, password, is_admin, salt) ==
    LET new_user == [id |-> NextVal("user"), email |-> email, username |-> username,
                     password |-> generate_password_hash(password, salt),
                     is_admin |-> is_admin]
        token == issue(new_user.id, now)
        commit == UserCommit(new_user)
    IN
    /\ Ready
    /\ UNCHANGED << seeded, added, comments, now, proc, seeder >>
    /\ IF \E u \in users : u.email = email
       THEN /\ resp' = Response("register", 400, "Email already registered", TRUE, << >>)
            /\ UNCHANGED << users, seq, lastToken >>
       ELSE IF \E u \in users : u.username = username
       THEN /\ resp' = Response("register", 400, "Username already taken", TRUE, << >>)
            /\ UNCHANGED << users, seq, lastToken >>
       ELSE /\ CanInsert
            /\ seq' = [seq EXCEPT !.user = new_user.id]
            /\ IF commit = "ok"
               THEN /\ users' = users \cup { new_user }
                    /\ lastToken' = { token }
                    /\ resp' = Response("register", 201, "User registered successfully",
                                        TRUE, [token |-> token, user |-> UserView(new_user)])
               ELSE /\ resp' = Response("register", 500, commit, TRUE, << >>)
                    /\ UNCHANGED << users, lastToken >>

\* POST /auth/login
login(email, password) ==
    LET found == { u \in users : u.email = email }
    IN
    /\ Ready
    /\ UNCHANGED << tables, seq, now, proc, seeder >>
    /\ IF \E u \in found : check_password_hash(u.password, password)
       THEN \E u \in found :
              /\ lastToken' = { issue(u.id, now) }
              /\ resp' = Response("login", 200, "Login successful", TRUE,
                                  [token |-> issue(u.id, now), user |-> UserView(u)])
       ELSE /\ resp' = Response("login", 401, "Invalid credentials", TRUE, << >>)
            /\ UNCHANGED lastToken

\* Time passes.
Tick ==
    /\ Ready
    /\ now < MaxTime
    /\ now' = now + 1
    /\ UNCHANGED << tables, seq, lastToken, resp, proc, seeder >>


\* ---------------------------------------------------------- catalog routes
\* A query-string or body value that may be missing is a set of at most one
\* value: {} is None.
\* A test for None alone, which takes the empty text for a value.
Truthy_not_none(arg, empty) == arg # {}

\* Python's truth of such a value: None and the empty text are false.
Truthy(arg, empty) == arg # {} /\ arg # { empty }

\* The texts sent as ?category_id=
CategoryIdArgs ==
    { {}, { << >> }, { << "1" >> }, { << "0", "6" >> }, { << "8" >> }, { << "9", "9" >> },
      { << "-", "1" >> }, { << "1", "-" >> },
      { << "2", "1", "4", "7", "4", "8", "3", "6", "4", "8" >> } }

\* Whether the store reads text s as an integer: an optional sign, then digits.
IntegerText(s) ==
    LET body == IF s # << >> /\ Head(s) = "-" THEN Tail(s) ELSE s IN
    /\ body # << >>
    /\ \A i \in 1..Len(body) : body[i] \in Digits

\* A reading of the text that knows no sign.
IntegerParam_unsigned(s) ==
    IF ~IntegerText(s) \/ Head(s) = "-" THEN {}
    ELSE LET v == DecimalValue(s) IN IF v < 0 THEN {} ELSE { v }

\* The integer the store compares an Integer column with when the query gives
\* text s: {} when the text is no integer or does not fit the column's 32 bits
\* (the statement fails).
IntegerParam(s) ==
    IF ~IntegerText(s) THEN {}
    ELSE LET negative == Head(s) = "-"
             v == DecimalValue(IF negative THEN Tail(s) ELSE s)
         IN  IF v < 0 THEN {} ELSE IF negative THEN { 0 - v } ELSE { v }

ProductView(p) ==
    [id |-> p.id, name |-> p.name, category_id |-> p.category_id,
     category_name |-> (CHOOSE c \in categories : c.id = p.category_id).name]

\* GET /products
get_products(category_id) ==
    LET param == UNION { IntegerParam(s) : s \in category_id }
        found == IF Truthy(category_id, << >>)
                 THEN { p \in products : p.category_id \in param }
                 ELSE products
    IN
    /\ Ready
    /\ UNCHANGED << tables, seq, now, lastToken, proc, seeder >>
    /\ IF Truthy(category_id, << >>) /\ param = {}
       THEN resp' = Response("get_products", 500, "DataError", TRUE, {})
       ELSE IF \E p \in found : Get(categories, p.category_id) = {}
       THEN resp' = Response("get_products", 500, "AttributeError", TRUE, {})
       ELSE resp' = Response("get_products", 200, "", TRUE, { ProductView(p) : p \in found })

\* The ids asked for by GET /products/<int:product_id>
ProductIdArgs == { 1, 99 }

\* GET /products/<product_id>
get_product(product_id) ==
    LET product == Get(products, product_id) IN
    /\ Ready
    /\ UNCHANGED << tables, seq, now, lastToken, proc, seeder >>
    /\ IF product = {}
       THEN resp' = Response("get_product", 404, "Not Found", FALSE, {})
       ELSE resp' = Response("get_product", 200, "", TRUE, { ProductView(p) : p \in product })

ProductNames == { "Lamp" }
CategoryIds == { 1, 8, 99 }

\* POST /products
create_product(h, lenient, name, category_id) ==
    LET guard == admin_required(h, lenient)
        new_product == [id |-> NextVal("product"), name |-> name, category_id |-> category_id]
        commit == ProductCommit(new_product)
    IN
    /\ Ready
    /\ UNCHANGED << users, seeded, comments, now, lastToken, proc, seeder >>
    /\ IF ~guard.pass
       THEN /\ resp' = Response("create_product", 403, guard.msg, FALSE, << >>)
            /\ UNCHANGED << added, seq >>
       ELSE /\ CanInsert
            /\ seq' = [seq EXCEPT !.product = new_product.id]
            /\ IF commit = "ok"
               THEN /\ added' = [added EXCEPT !.product = @ \cup { new_product }]
                    /\ resp' = Response("create_product", 201, "Product created successfully",
                                        TRUE, new_product)
               ELSE /\ resp' = Response("create_product", 500, commit, TRUE, << >>)
                    /\ UNCHANGED added

\* GET /categories
get_categories ==
    /\ Ready
    /\ UNCHANGED << tables, seq, now, lastToken, proc, seeder >>
    /\ resp' = Response("get_categories", 200, "", TRUE,
                        { [id |-> c.id, name |-> c.name] : c \in categories })

CategoryNames == { "Kitchen", "Test" }

\* POST /categories
create_category(h, lenient, name) ==
    LET guard == admin_required(h, lenient)
        new_category == [id |-> NextVal("category"), name |-> name]
        commit == CategoryCommit(new_category)
    IN
    /\ Ready
    /\ UNCHANGED << users, seeded, comments, now, lastToken, proc, seeder >>
    /\ IF ~guard.pass
       THEN /\ resp' = Response("create_category", 403, guard.msg, FALSE, << >>)
            /\ UNCHANGED << added, seq >>
       ELSE IF \E c \in categories : c.name = name
       THEN /\ resp' = Response("create_category", 400, "Category already exists", TRUE, << >>)
            /\ UNCHANGED << added, seq >>
       ELSE /\ CanInsert
            /\ seq' = [seq EXCEPT !.category = new_category.id]
            /\ IF commit = "ok"
               THEN /\ added' = [added EXCEPT !.category = @ \cup { new_category }]
                    /\ resp' = Response("create_category", 201, "Category created successfully",
                                        TRUE, new_category)
               ELSE /\ resp' = Response("create_category", 500, commit, TRUE, << >>)
                    /\ UNCHANGED added


\* ------------------------------------------------------------- blog routes
PostView(post) ==
    [id |-> post.id, date |-> post.date, category |-> post.category, tags |-> post.tags]

\* The rows of found with the greatest date.
Latest(found) == { r \in found : \A o \in found : ~StrLess(r.date, o.date) }

\* ORDER BY date DESC: every order of the rows in which no row comes before a
\* row with a greater date (rows with equal dates come in any order).
RECURSIVE OrderByDateDesc(_)
OrderByDateDesc(found) ==
    IF found = {} THEN { << >> }
    ELSE UNION { { << r >> \o rest : rest \in OrderByDateDesc(found \ { r }) } :
                 r \in Latest(found) }

\* The values sent as ?category= and ?tag=
CategoryArgs == { {}, { "" }, { "Lifestyle" } }
TagArgs == { {}, { "sustainability" } }

\* BlogPost.tags.contains([tag]) on the db.JSON column of app.py:57.  Only the
\* JSONB, ARRAY and HSTORE column types give contains() a containment
\* meaning; on a JSON column it is the string operator
\* tags LIKE '%' || :param || '%', and PostgreSQL has no LIKE for json: the
\* statement fails.
tags_contains_fails == TRUE

\* GET /blog/posts
get_blog_posts(category, tag) ==
    LET by_category == IF Truthy(category, "")
                       THEN { r \in posts : r.category \in category }
                       ELSE posts
    IN
    /\ Ready
    /\ UNCHANGED << tables, seq, now, lastToken, proc, seeder >>
    /\ IF Truthy(tag, "") /\ tags_contains_fails
       THEN resp' = Response("get_blog_posts", 500, "ProgrammingError", TRUE, << >>)
       ELSE \E ordered \in OrderByDateDesc(by_category) :
              resp' = Response("get_blog_posts", 200, "", TRUE,
                               [i \in 1..Len(ordered) |-> PostView(ordered[i])])

\* GET /blog/posts/<post_id>
get_blog_post(post_id) ==
    LET post == Get(posts, post_id) IN
    /\ Ready
    /\ UNCHANGED << tables, seq, now, lastToken, proc, seeder >>
    /\ IF post = {}
       THEN resp' = Response("get_blog_post", 404, "Not Found", FALSE, {})
       ELSE resp' = Response("get_blog_post", 200, "", TRUE, { PostView(r) : r \in post })

\* GET /blog/categories
get_blog_categories ==
    /\ Ready
    /\ UNCHANGED << tables, seq, now, lastToken, proc, seeder >>
    /\ resp' = Response("get_blog_categories", 200, "", TRUE, { r.category : r \in posts })

\* GET /blog/tags
get_blog_tags ==
    /\ Ready
    /\ UNCHANGED << tables, seq, now, lastToken, proc, seeder >>
    /\ resp' = Response("get_blog_tags", 200, "", TRUE,
                        UNION { { r.tags[i] : i \in 1..Len(r.tags) } : r \in posts })

PostDates == { SeedDate("1", "0"), << "2", "0", "2", "4", "-", "3", "-", "5" >> }
PostCategories == { "Lifestyle" }
PostTags == { << "diy" >> }

\* POST /blog/posts
create_blog_post(h, lenient, date, category, tags) ==
    LET guard == admin_required(h, lenient)
        new_post == [id |-> NextVal("blog_post"), date |-> date, category |-> category,
                     tags |-> tags]
        commit == BlogPostCommit(new_post)
    IN
    /\ Ready
    /\ UNCHANGED << users, seeded, comments, now, lastToken, proc, seeder >>
    /\ IF ~guard.pass
       THEN /\ resp' = Response("create_blog_post", 403, guard.msg, FALSE, << >>)
            /\ UNCHANGED << added, seq >>
       ELSE /\ CanInsert
            /\ seq' = [seq EXCEPT !.blog_post = new_post.id]
            /\ IF commit = "ok"
               THEN /\ added' = [added EXCEPT !.blog_post = @ \cup { new_post }]
                    /\ resp' = Response("create_blog_post", 201,
                                        "Blog post created successfully", TRUE, new_post)
               ELSE /\ resp' = Response("create_blog_post", 500, commit, TRUE, << >>)
                    /\ UNCHANGED added

PostIdArgs == { 1, 99 }
\* The content of a comment request: missing, empty, or a text.
ContentArgs == { {}, { "" }, { "nice" } }

\* POST /blog/posts/<post_id>/comments
create_comment(h, lenient, post_id, content) ==
    LET guard == token_required(h, lenient)
        current_user == guard.current_user
    IN
    /\ Ready
    /\ UNCHANGED << users, seeded, added, now, lastToken, proc, seeder >>
    /\ IF ~guard.pass
       THEN /\ resp' = Response("create_comment", 403, guard.msg, FALSE, << >>)
            /\ UNCHANGED << comments, seq >>
       ELSE IF ~Truthy(content, "")
       THEN /\ resp' = Response("create_comment", 400, "Comment content is required",
                                TRUE, << >>)
            /\ UNCHANGED << comments, seq >>
       ELSE IF current_user = {}
       \* current_user is None: current_user.id raises AttributeError
       THEN /\ resp' = Response("create_comment", 500, "AttributeError", TRUE, << >>)
            /\ UNCHANGED << comments, seq >>
       ELSE \E u \in current_user, c \in content :
              LET new_comment == [id |-> NextVal("comment"), content |-> c,
                                  created_at |-> now, post_id |-> post_id,
                                  user_id |-> u.id, author |-> u.username]
                  commit == CommentCommit(new_comment)
              IN
              /\ CanInsert
              /\ seq' = [seq EXCEPT !.comment = new_comment.id]
              /\ IF commit = "ok"
                 THEN /\ comments' = comments \cup { new_comment }
                      /\ resp' = Response("create_comment", 201, "", TRUE, new_comment)
                 ELSE /\ resp' = Response("create_comment", 500, commit, TRUE, << >>)
                      /\ UNCHANGED comments

CommentView(comment) ==
    [id |-> comment.id, content |-> comment.content, created_at |-> comment.created_at,
     author |-> comment.author]

\* ORDER BY created_at DESC: every order of the rows in which no row comes
\* before a row created later.
RECURSIVE OrderByCreatedDesc(_)
OrderByCreatedDesc(found) ==
    IF found = {} THEN { << >> }
    ELSE UNION { { << r >> \o rest : rest \in OrderByCreatedDesc(found \ { r }) } :
                 r \in { x \in found : \A o \in found : o.created_at <= x.created_at } }

\* GET /blog/posts/<post_id>/comments
get_post_comments(post_id) ==
    /\ Ready
    /\ UNCHANGED << tables, seq, now, lastToken, proc, seeder >>
    /\ \E ordered \in OrderByCreatedDesc({ c \in comments : c.post_id = post_id }) :
         resp' = Response("get_post_comments", 200, "", TRUE,
                          [i \in 1..Len(ordered) |-> CommentView(ordered[i])])

\* ------------------------------------------------------------------ seeding
\* populate_db(), run when a server process starts on the database.  The
\* deletes run in one transaction; deleting the blog posts fails while a
\* comment references one, and the except branch rolls everything back.
populate_db ==
    /\ Ready
    /\ UNCHANGED << users, seq, now, lastToken, proc, seeder >>
    /\ IF comments # {}
       THEN /\ resp' = Response("populate_db", 0, "False", TRUE, << >>)
            /\ UNCHANGED << seeded, added, comments >>
       ELSE /\ seeded' = [t \in SeededTables |-> TRUE]
            /\ added' = [t \in SeededTables |-> {}]
            /\ comments' = {}
            /\ resp' = Response("populate_db", 0, "True", TRUE, << >>)

\* --------------------------------------------------------------------- Spec
Next ==
    \/ \E e \in Emails, u \in Usernames, pw \in Passwords, a \in BOOLEAN, s \in Salts :
         register(e, u, pw, a, s)
    \/ \E e \in Emails, pw \in LoginPasswords : login(e, pw)
    \/ Tick
    \/ \E c \in CategoryIdArgs : get_products(c)
    \/ \E h \in Headers, n \in ProductNames, c \in CategoryIds :
         \E l \in Lenience(h) : create_product(h, l, n, c)
    \/ get_categories
    \/ \E h \in Headers, n \in CategoryNames :
         \E l \in Lenience(h) : create_category(h, l, n)
    \/ \E c \in CategoryArgs, t \in TagArgs : get_blog_posts(c, t)
    \/ \E h \in Headers, d \in PostDates, c \in PostCategories, t \in PostTags :
         \E l \in Lenience(h) : create_blog_post(h, l, d, c, t)
    \/ \E h \in Headers, p \in PostIdArgs, c \in ContentArgs :
         \E l \in Lenience(h) : create_comment(h, l, p, c)
    \/ \E p \in ProductIdArgs : get_product(p)
    \/ \E p \in PostIdArgs : get_blog_post(p)
    \/ get_blog_categories
    \/ get_blog_tags
    \/ \E p \in PostIdArgs : get_post_comments(p)
    \/ populate_db
    \/ Sent

Spec == Init /\ [][Next]_vars


\* ------------------------------------------------- requests side by side
\* The same handlers taken one store statement at a time, so that the
\* statements of requests handled by different workers interleave.  A
\* request in flight is proc[p]; its response is left in proc[p].
Done(op, status, msg) == [pc |-> "done", op |-> op, status |-> status, msg |-> msg]

Free(p) == proc[p].pc = "idle"

\* The response of worker p leaves the server.
finish(p) ==
    /\ proc[p].pc = "done"
    /\ proc' = [proc EXCEPT ![p] = Idle]
    /\ UNCHANGED << tables, seq, now, lastToken, resp, seeder >>

\* register: User.query.filter_by(email=...).first()
register_email(p, email, username, password, is_admin, salt) ==
    /\ Free(p)
    /\ proc' = [proc EXCEPT ![p] =
                  IF \E u \in users : u.email = email
                  THEN Done("register", 400, "Email already registered")
                  ELSE [pc |-> "register_username", email |-> email, username |-> username,
                        password |-> generate_password_hash(password, salt),
                        is_admin |-> is_admin]]
    /\ UNCHANGED << tables, seq, now, lastToken, resp, seeder >>

\* register: User.query.filter_by(username=...).first()
register_username(p) ==
    /\ proc[p].pc = "register_username"
    /\ proc' = [proc EXCEPT ![p] =
                  IF \E u \in users : u.username = proc[p].username
                  THEN Done("register", 400, "Username already taken")
                  ELSE [@ EXCEPT !.pc = "register_commit"]]
    /\ UNCHANGED << tables, seq, now, lastToken, resp, seeder >>

\* register: db.session.add(new_user); db.session.commit()
register_commit(p) ==
    LET new_user == [id |-> NextVal("user"), email |-> proc[p].email,
                     username |-> proc[p].username, password |-> proc[p].password,
                     is_admin |-> proc[p].is_admin]
        commit == UserCommit(new_user)
    IN
    /\ proc[p].pc = "register_commit"
    /\ CanInsert
    /\ seq' = [seq EXCEPT !.user = new_user.id]
    /\ IF commit = "ok"
       THEN /\ users' = users \cup { new_user }
            /\ lastToken' = { issue(new_user.id, now) }
            /\ proc' = [proc EXCEPT ![p] = Done("register", 201, "User registered successfully")]
       ELSE /\ proc' = [proc EXCEPT ![p] = Done("register", 500, commit)]
            /\ UNCHANGED << users, lastToken >>
    /\ UNCHANGED << seeded, added, comments, now, resp, seeder >>

\* create_category: the admin_required guard
create_category_guard(p, h, lenient, name) ==
    LET guard == admin_required(h, lenient) IN
    /\ Free(p)
    /\ proc' = [proc EXCEPT ![p] =
                  IF ~guard.pass THEN Done("create_category", 403, guard.msg)
                  ELSE [pc |-> "create_category_lookup", name |-> name]]
    /\ UNCHANGED << tables, seq, now, lastToken, resp, seeder >>

\* create_category: Category.query.filter_by(name=...).first()
create_category_lookup(p) ==
    /\ proc[p].pc = "create_category_lookup"
    /\ proc' = [proc EXCEPT ![p] =
                  IF \E c \in categories : c.name = proc[p].name
                  THEN Done("create_category", 400, "Category already exists")
                  ELSE [@ EXCEPT !.pc = "create_category_commit"]]
    /\ UNCHANGED << tables, seq, now, lastToken, resp, seeder >>

\* create_category: db.session.add(new_category); db.session.commit()
create_category_commit(p) ==
    LET new_category == [id |-> NextVal("category"), name |-> proc[p].name]
        commit == CategoryCommit(new_category)
    IN
    /\ proc[p].pc = "create_category_commit"
    /\ CanInsert
    /\ seq' = [seq EXCEPT !.category = new_category.id]
    /\ IF commit = "ok"
       THEN /\ added' = [added EXCEPT !.category = @ \cup { new_category }]
            /\ proc' = [proc EXCEPT ![p] =
                          Done("create_category", 201, "Category created successfully")]
       ELSE /\ proc' = [proc EXCEPT ![p] = Done("create_category", 500, commit)]
            /\ UNCHANGED added
    /\ UNCHANGED << users, seeded, comments, now, lastToken, resp, seeder >>

\* populate_db, commit by commit.  seeder is the commit it stands before;
\* an exception rolls the open transaction back and ends it (return False).
\* The four deletes and their commit:
populate_delete ==
    /\ seeder = "idle"
    /\ IF comments # {}
       THEN UNCHANGED << seeded, added, comments, seeder >>
       ELSE /\ seeded' = [t \in SeededTables |-> FALSE]
            /\ added' = [t \in SeededTables |-> {}]
            /\ comments' = {}
            /\ seeder' = "categories"
    /\ UNCHANGED << users, seq, now, lastToken, resp, proc >>

\* Whether the store takes rows, inserted with their ids, into a table.
SeedFits(rows, table) ==
    \A r \in rows : r.id \notin Ids(table)

\* The categories and their commit.
populate_categories ==
    /\ seeder = "categories"
    /\ IF /\ SeedFits(categories_data, categories)
          /\ \A r \in categories_data : \A c \in categories : c.name # r.name
       THEN /\ seeded' = [seeded EXCEPT !.category = TRUE]
            /\ seeder' = "products"
       ELSE /\ seeder' = "idle"
            /\ UNCHANGED seeded
    /\ UNCHANGED << users, added, comments, seq, now, lastToken, resp, proc >>

\* The products and their commit.
populate_products ==
    /\ seeder = "products"
    /\ IF /\ SeedFits(products_data, products)
          /\ \A r \in products_data : r.category_id \in Ids(categories)
       THEN /\ seeded' = [seeded EXCEPT !.product = TRUE]
            /\ seeder' = "posts"
       ELSE /\ seeder' = "idle"
            /\ UNCHANGED seeded
    /\ UNCHANGED << users, added, comments, seq, now, lastToken, resp, proc >>

\* The blog posts and their commit.
populate_posts ==
    /\ seeder = "posts"
    /\ seeded' = IF SeedFits(blog_posts_data, posts)
                 THEN [seeded EXCEPT !.blog_post = TRUE] ELSE seeded
    /\ seeder' = "idle"
    /\ UNCHANGED << users, added, comments, seq, now, lastToken, resp, proc >>

NextConc ==
    \/ \E p \in Procs, e \in Emails, u \in Usernames, pw \in Passwords, a \in BOOLEAN,
          s \in Salts : register_email(p, e, u, pw, a, s)
    \/ \E p \in Procs : register_username(p)
    \/ \E p \in Procs : register_commit(p)
    \/ \E e \in Emails, pw \in LoginPasswords : login(e, pw)
    \/ \E p \in Procs, h \in Headers, n \in CategoryNames :
         \E l \in Lenience(h) : create_category_guard(p, h, l, n)
    \/ \E p \in Procs : create_category_lookup(p)
    \/ \E p \in Procs : create_category_commit(p)
    \/ populate_delete
    \/ populate_categories
    \/ populate_products
    \/ populate_posts
    \/ \E p \in Procs : finish(p)
    \/ Sent

SpecConc == Init /\ [][NextConc]_vars

\* ============================================================ properties
\* What a header is, at the moment a guard reads it.
Unexpired(h) == h.kind = "signed" /\ now < h.exp

Expired(h) == h.kind = "signed" /\ now > h.exp

BoundUser(h) == IF h.kind = "signed" THEN Get(users, h.user_id) ELSE {}

AdminToken(h) == Unexpired(h) /\ \E u \in BoundUser(h) : u.is_admin

NonAdminToken(h) == Unexpired(h) /\ \E u \in BoundUser(h) : ~u.is_admin

\* ------------------------------------------------------------------- C1
\* r answers a request to one of the admin-guarded routes.
AdminRoute(r) == r.op \in { "create_product", "create_category", "create_blog_post" }

\* What C1 asks of the response r to an admin-guarded request with header h:
\* no header: 403; an unexpired token of a non-admin: 403; an unexpired token
\* of an admin: the handler runs, and the request succeeds (201) when its
\* body is valid.
C1_Outcome(h, valid_body, r) ==
    /\ h.kind = "absent" => r.status = 403 /\ ~r.ran
    /\ NonAdminToken(h) => r.status = 403 /\ ~r.ran
    /\ AdminToken(h) => r.ran /\ (valid_body => r.status = 201)

\* The guard's share of C1 alone: with an admin's token the handler runs,
\* whatever the store then answers.
C1_GuardOutcome(h, r) ==
    /\ h.kind = "absent" => r.status = 403 /\ ~r.ran
    /\ NonAdminToken(h) => r.status = 403 /\ ~r.ran
    /\ AdminToken(h) => r.ran /\ r.status # 403

\* C1 as the specification states it: on POST /products, POST /categories
\* and POST /blog/posts, in every reachable state, a request without an
\* Authorization header is answered 403, one with an unexpired token of a
\* user who is no admin is answered 403, and one with an unexpired token of an
\* admin passes the guard, runs the handler and succeeds when its body is
\* valid (an existing category for a product, a new name for a category).
C1_AdminRoutesAsStated ==
    [][AdminRoute(resp') => \A h \in Headers : \A l \in Lenience(h) :
         /\ \A n \in ProductNames, c \in CategoryIds :
              create_product(h, l, n, c)
                  => C1_Outcome(h, Get(categories, c) # {}, resp')
         /\ \A n \in CategoryNames :
              create_category(h, l, n)
                  => C1_Outcome(h, \A c \in categories : c.name # n, resp')
         /\ \A d \in PostDates, c \in PostCategories, t \in PostTags :
              create_blog_post(h, l, d, c, t) => C1_Outcome(h, TRUE, resp')]_vars

\* C1, the guard alone: on the three admin-guarded routes no header gives
\* 403, an unexpired non-admin token gives 403, and an unexpired admin token
\* passes the guard and the handler runs.
C1_AdminGuard ==
    [][AdminRoute(resp') => \A h \in Headers : \A l \in Lenience(h) :
         /\ \A n \in ProductNames, c \in CategoryIds :
              create_product(h, l, n, c) => C1_GuardOutcome(h, resp')
         /\ \A n \in CategoryNames :
              create_category(h, l, n) => C1_GuardOutcome(h, resp')
         /\ \A d \in PostDates, c \in PostCategories, t \in PostTags :
              create_blog_post(h, l, d, c, t) => C1_GuardOutcome(h, resp')]_vars

\* An admin's request has run a handler, and a non-admin's has been refused.
C1_Witness ==
    /\ AdminRoute(resp)
    /\ resp.msg = "Admin privileges required!"
    /\ \E u \in users : u.is_admin

\* ------------------------------------------------------------------- C2
\* The headers carrying a token that register or login handed out.
IssuedHeaders == { Bearer(tok) : tok \in lastToken }

\* The guard took the token of h and the handler saw the user the token
\* names: a comment is stored under that user's id, and an admin route
\* decides on that user's is_admin.
C2_Resolves(h, r) ==
    /\ BoundUser(h) # {}
    /\ r.op = "create_comment" =>
         /\ r.ran
         /\ r.status = 201 => r.out.user_id = h.user_id
    /\ AdminRoute(r) =>
         IF \E u \in BoundUser(h) : u.is_admin THEN r.ran
         ELSE r.status = 403 /\ r.msg = "Admin privileges required!"

C2_Rejected(r) == r.status = 403 /\ ~r.ran /\ r.msg = "Token is invalid!"

\* Before exp the token is taken; after exp it is refused; in the tick of exp
\* nothing is said.
C2_Verdict(h, r) ==
    /\ now < h.exp => C2_Resolves(h, r)
    /\ now > h.exp => C2_Rejected(r)

\* The verdict C2 states: taken up to and including exp, refused after.
C2_VerdictAsStated(h, r) ==
    /\ now <= h.exp => C2_Resolves(h, r)
    /\ now > h.exp => C2_Rejected(r)

\* A successful register or login for email answers with a token that names
\* the stored user of that email and expires TokenTTL after now, and hands
\* out that token.
C2_Issued(email, r, stored, handed) ==
    r.status \in { 200, 201 } =>
        /\ r.out.token.exp = now + TokenTTL
        /\ \E u \in stored : u.email = email /\ u.id = r.out.token.user_id
        /\ handed = { r.out.token }

\* C2, issuance (shared by the amended and the original statement): every
\* token register or login returns carries exp = now + 24h and its user's id.
C2_Issuance ==
    /\ resp'.op = "register" =>
         \A e \in Emails, u \in Usernames, pw \in Passwords, a \in BOOLEAN, s \in Salts :
           register(e, u, pw, a, s) => C2_Issued(e, resp', users', lastToken')
    /\ resp'.op = "login" =>
         \A e \in Emails, pw \in LoginPasswords :
           login(e, pw) => C2_Issued(e, resp', users', lastToken')

C3_Outcome(email, username, before, after, r) ==
    IF \E x \in before : x.email = email \/ x.username = username
    THEN r.status = 400 /\ after = before
    ELSE /\ r.status = 201
         /\ before \subseteq after
         /\ Cardinality(after) = Cardinality(before) + 1
         /\ \E n \in after \ before : n.email = email /\ n.username = username

\* C3: POST /auth/register with an email and a username no stored user has
\* returns 201 and adds exactly one user; with the email or the username of a
\* stored user it returns 400 and leaves the stored users unchanged.
C3_Register ==
    [][resp'.op = "register" =>
         \A e \in Emails, u \in Usernames, pw \in Passwords, a \in BOOLEAN, s \in Salts :
           register(e, u, pw, a, s) => C3_Outcome(e, u, users, users', resp')]_vars

\* A register refused for its username after one that succeeded with it.
C3_Witness ==
    /\ resp.op = "register"
    /\ resp.status = 400
    /\ resp.msg = "Username already taken"
    /\ users # {}

\* ------------------------------------------------------------------- C4
\* C4: in every state reached by register, create_category and seeding,
\* their statements interleaved in any way, no two stored users share an email,
\* no two stored users share a username, and no two stored categories share a
\* name.
C4_Unique ==
    /\ \A a \in users : \A b \in users \ { a } :
         a.email # b.email /\ a.username # b.username
    /\ \A a \in categories : \A b \in categories \ { a } : a.name # b.name

\* Two registers with one email ran side by side: the commit of the second
\* was refused by the store.
C4_Witness ==
    \E p \in Procs :
      /\ proc[p].pc = "done"
      /\ proc[p].op = "register"
      /\ proc[p].msg = "user_email_key"
      /\ \E u \in users : u.id > 1

\* ------------------------------------------------------------------- C5
\* The unique constraints of the users and categories tables.
UniqueKeys == { "user_email_key", "user_username_key", "category_name_key" }

\* C5 as the specification states it: register and create_category act as
\* one atomic insert-or-fail step, so of two concurrent requests with the same
\* email, username or category name one is answered 201 and the other 400, and
\* no request ends in an unhandled failure of a uniqueness constraint.
C5_InsertOrFailAsStated ==
    \A p \in Procs :
      proc[p].pc = "done" => proc[p].status # 500 \/ proc[p].msg \notin UniqueKeys

\* Two create_category requests ran side by side, one answered 201 and the
\* other left by the IntegrityError of the name's constraint.
C5_Witness ==
    \E p \in Procs, q \in Procs :
      /\ proc[p].pc = "done" /\ proc[p].op = "create_category" /\ proc[p].status = 201
      /\ proc[q].pc = "done" /\ proc[q].op = "create_category"
      /\ proc[q].status = 500 /\ proc[q].msg = "category_name_key"

\* ------------------------------------------------------------------- C6
\* The contents C6 is about: absent, or the empty string.
EmptyContents == { c \in ContentArgs : c = {} \/ c = { "" } }

\* The guard surely refuses h: no header, a malformed one, or a token past
\* its exp.
SurelyRefused(h) == h.kind \in { "absent", "noscheme", "garbage" } \/ Expired(h)

\* C6 as amended: POST /blog/posts/{id}/comments with empty or absent
\* content never stores a comment; it yields 400 when the request carries an
\* unexpired token, and 403 when the Authorization header is missing,
\* malformed or expired, because the guard answers before the body is read.
C6_EmptyContent ==
    [][resp'.op = "create_comment" =>
         \A h \in Headers, p \in PostIdArgs, c \in EmptyContents :
           \A l \in Lenience(h) :
             create_comment(h, l, p, c) =>
               /\ comments' = comments
               /\ resp'.status \in { 400, 403 }
               /\ Unexpired(h) => resp'.status = 400
               /\ SurelyRefused(h) => resp'.status = 403]_vars

\* C6 as the specification states it: empty or absent content always yields
\* 400 and stores no comment, whatever the Authorization header.
C6_EmptyContentAsStated ==
    [][resp'.op = "create_comment" =>
         \A h \in Headers, p \in PostIdArgs, c \in EmptyContents :
           \A l \in Lenience(h) :
             create_comment(h, l, p, c) =>
               comments' = comments /\ resp'.status = 400]_vars

\* A comment request without content, let through by the guard and refused
\* by the handler, on a database that holds a comment already.
C6_Witness ==
    /\ resp.op = "create_comment"
    /\ resp.status = 400
    /\ resp.msg = "Comment content is required"
    /\ comments # {}

\* ------------------------------------------------------------------- C7
\* The token of h fails to decode or to load its user: a malformed header, a
\* token past its exp, or an unexpired token whose user_id no stored user has.
FailsToResolve(h) ==
    \/ h.kind \in { "noscheme", "garbage" }
    \/ Expired(h)
    \/ Unexpired(h) /\ BoundUser(h) = {}

C7_Forbidden(h, r) == FailsToResolve(h) => r.status = 403 /\ ~r.ran

\* C7 as the specification states it: on every guarded route, under the
\* authenticated and the admin guard alike, a malformed token, an expired
\* token and an unexpired token of no stored user give 403; the handler body
\* does not run and the request does not end in an unhandled error.
C7_GuardFailuresAsStated ==
    [][/\ resp'.op = "create_comment" =>
            \A h \in Headers, p \in PostIdArgs, c \in ContentArgs :
              \A l \in Lenience(h) : create_comment(h, l, p, c) => C7_Forbidden(h, resp')
       /\ resp'.op = "create_product" =>
            \A h \in Headers, n \in ProductNames, c \in CategoryIds :
              \A l \in Lenience(h) : create_product(h, l, n, c) => C7_Forbidden(h, resp')
       /\ resp'.op = "create_category" =>
            \A h \in Headers, n \in CategoryNames :
              \A l \in Lenience(h) : create_category(h, l, n) => C7_Forbidden(h, resp')
       /\ resp'.op = "create_blog_post" =>
            \A h \in Headers, d \in PostDates, c \in PostCategories, t \in PostTags :
              \A l \in Lenience(h) :
                create_blog_post(h, l, d, c, t) => C7_Forbidden(h, resp')]_vars

\* C7, the admin guard alone: on the three admin-guarded routes every such
\* failure gives 403 and the handler body does not run.
C7_AdminGuardFailures ==
    [][/\ resp'.op = "create_product" =>
            \A h \in Headers, n \in ProductNames, c \in CategoryIds :
              \A l \in Lenience(h) : create_product(h, l, n, c) => C7_Forbidden(h, resp')
       /\ resp'.op = "create_category" =>
            \A h \in Headers, n \in CategoryNames :
              \A l \in Lenience(h) : create_category(h, l, n) => C7_Forbidden(h, resp')
       /\ resp'.op = "create_blog_post" =>
            \A h \in Headers, d \in PostDates, c \in PostCategories, t \in PostTags :
              \A l \in Lenience(h) :
                create_blog_post(h, l, d, c, t) => C7_Forbidden(h, resp')]_vars

\* A comment request with the token of no stored user reached the handler
\* body, which failed on current_user.id.
C7_Witness ==
    /\ resp.op = "create_comment"
    /\ resp.ran
    /\ resp.status = 500
    /\ resp.msg = "AttributeError"

\* ------------------------------------------------------------------- C8
\* GET /categories, asked after the step, lists a category named name.
C8_Listed(name, stored) == \E c \in stored : c.name = name

\* C8 as the specification states it: for an admin caller and a name not
\* yet stored, POST /categories returns 201 and GET /categories then lists an
\* entry with that name; for a name already stored it returns 400 and leaves
\* the stored categories unchanged; GET /categories returns the stored
\* categories as {id, name} entries.
C8_RoundTripAsStated ==
    [][/\ resp'.op = "create_category" =>
            \A h \in Headers, n \in CategoryNames :
              \A l \in Lenience(h) :
                create_category(h, l, n) /\ AdminToken(h) =>
                  IF C8_Listed(n, categories)
                  THEN resp'.status = 400 /\ categories' = categories
                  ELSE resp'.status = 201 /\ C8_Listed(n, categories')
       /\ get_categories =>
            /\ resp'.status = 200
            /\ \A c \in categories : \E v \in resp'.out : v.id = c.id /\ v.name = c.name
            /\ \A v \in resp'.out : \E c \in categories : v.id = c.id /\ v.name = c.name]_vars

\* C8 with the store's answer left open: the new name is listed after a
\* 201, which the request gets exactly when the id drawn from the sequence is
\* free; otherwise the commit fails on category_pkey and nothing is stored.
C8_RoundTrip ==
    [][/\ resp'.op = "create_category" =>
            \A h \in Headers, n \in CategoryNames :
              \A l \in Lenience(h) :
                create_category(h, l, n) /\ AdminToken(h) =>
                  IF C8_Listed(n, categories)
                  THEN resp'.status = 400 /\ categories' = categories
                  ELSE IF seq.category + 1 \in Ids(categories)
                  THEN /\ resp'.status = 500 /\ resp'.msg = "category_pkey"
                       /\ categories' = categories
                  ELSE resp'.status = 201 /\ C8_Listed(n, categories')
       /\ get_categories =>
            /\ resp'.status = 200
            /\ \A c \in categories : \E v \in resp'.out : v.id = c.id /\ v.name = c.name
            /\ \A v \in resp'.out : \E c \in categories : v.id = c.id /\ v.name = c.name]_vars

\* An admin's POST /categories with a new name ended in the store's refusal
\* of the id.
C8_Witness ==
    /\ resp.op = "create_category"
    /\ resp.status = 500
    /\ resp.msg = "category_pkey"
    /\ \A c \in categories : c.name # "Test"

\* ------------------------------------------------------------------- C9
\* The integer a query text denotes, written out for the texts of
\* CategoryIdArgs: none for the empty text, for "1-" and for 2147483648,
\* which no 32-bit column value equals.
C9_Denoted(s) ==
    IF s = << "1" >> THEN { 1 }
    ELSE IF s = << "0", "6" >> THEN { 6 }
    ELSE IF s = << "8" >> THEN { 8 }
    ELSE IF s = << "9", "9" >> THEN { 99 }
    ELSE IF s = << "-", "1" >> THEN { 0 - 1 }
    ELSE { }

\* out holds exactly the products of wanted, each once and with the name of
\* its category.
C9_Exactly(out, wanted) ==
    /\ \A p \in wanted : \E v \in out : v.id = p.id
    /\ \A v \in out : \E p \in wanted :
         /\ v.id = p.id /\ v.name = p.name /\ v.category_id = p.category_id
         /\ \E c \in categories : c.id = p.category_id /\ c.name = v.category_name
    /\ Cardinality(out) = Cardinality(wanted)

C10_Exactly(out, wanted) ==
    /\ Len(out) = Cardinality(wanted)
    /\ \A p \in wanted : \E i \in 1..Len(out) : out[i].id = p.id
    /\ \A i \in 1..Len(out) : \E p \in wanted : out[i] = PostView(p)

\* out is in descending order of date under string comparison.
C10_Descending(out) ==
    \A i \in 1..Len(out) : \A j \in (i + 1)..Len(out) : ~StrLess(out[i].date, out[j].date)

HasTag(post, t) == \E i \in 1..Len(post.tags) : post.tags[i] = t

\* C10 as the specification states it: GET /blog/posts returns exactly the
\* stored posts whose category equals the category parameter (when given) and
\* whose tag list contains the tag parameter (when given), both filters
\* together when both are given, in descending order of date under string
\* comparison.  An empty category counts as not given.
C10_ListAsStated ==
    [][resp'.op = "get_blog_posts" =>
         \A c \in CategoryArgs, t \in TagArgs :
           get_blog_posts(c, t) =>
             /\ resp'.status = 200
             /\ C10_Exactly(resp'.out,
                            { p \in posts :
                                /\ c \notin { {}, { "" } } => p.category \in c
                                /\ \A x \in t : HasTag(p, x) })
             /\ C10_Descending(resp'.out)]_vars

\* C10 without the tag filter: with no tag parameter, GET /blog/posts
\* returns exactly the stored posts of the given non-empty category (all
\* posts without one, or with an empty one), in descending order of date.
C10_CategoryAndOrder ==
    [][resp'.op = "get_blog_posts" =>
         \A c \in CategoryArgs :
           get_blog_posts(c, {}) =>
             /\ resp'.status = 200
             /\ C10_Exactly(resp'.out,
                            { p \in posts : c \notin { {}, { "" } } => p.category \in c })
             /\ C10_Descending(resp'.out)]_vars

\* A request with a tag ended in the store's error.
C10_Witness ==
    /\ resp.op = "get_blog_posts"
    /\ resp.status = 500
    /\ resp.msg = "ProgrammingError"
    /\ added.blog_post # {}

\* ------------------------------------------------------------------ C11
\* The stored users with this email whose stored hash is the hash of this
\* password under the hash's own salt.
C11_Matching(email, password) ==
    { u \in users : /\ u.email = email
                    /\ u.password = generate_password_hash(password, u.password.salt) }

\* C11: POST /auth/login returns 200 with a token bound to the matching
\* user's id exactly when a stored user has the given email and the given
\* password verifies against that user's hash; in every other case (unknown
\* email, wrong password) it returns 401; either way the users and all other
\* tables are unchanged.
C11_Login ==
    [][resp'.op = "login" =>
         \A e \in Emails, pw \in LoginPasswords :
           login(e, pw) =>
             /\ UNCHANGED << users, seeded, added, comments, seq >>
             /\ resp'.status \in { 200, 401 }
             /\ resp'.status = 200 <=> C11_Matching(e, pw) # {}
             /\ resp'.status = 200 =>
                  \E u \in C11_Matching(e, pw) :
                    /\ resp'.out.token.user_id = u.id
                    /\ resp'.out.user.id = u.id]_vars

\* A login refused although users are stored, after a tick of the clock.
C11_Witness ==
    /\ resp.op = "login"
    /\ resp.status = 401
    /\ Cardinality(users) = 2
    /\ now > 0

\* ------------------------------------------------------------------ C12
\* C12: no API request updates or deletes a stored row: over every step
\* that is not a seeding, each User, Category, Product, BlogPost and Comment
\* row of the state before is a row of the state after with the same values
\* in all its attributes, hence of every later state.
C12_NoUpdateNoDelete ==
    [][populate_db \/
         /\ users \subseteq users'
         /\ categories \subseteq categories'
         /\ products \subseteq products'
         /\ posts \subseteq posts'
         /\ comments \subseteq comments']_vars

\* A comment read back, with its author, after the clock moved on from its
\* creation.
C12_Witness ==
    /\ resp.op = "get_post_comments"
    /\ resp.status = 200
    /\ Len(resp.out) > 0
    /\ \E c \in comments :
         /\ CommentView(c) = resp.out[1]
         /\ c.created_at < now
         /\ \E u \in users : u.id = c.user_id /\ u.username = c.author

\* ------------------------------------------------------------------ C13
\* Every product of table prods references a category of table cats.
C13_Resolvable(prods, cats) == \A p \in prods : p.category_id \in Ids(cats)

\* The step stored exactly one new product, with this name and category.
C13_Inserted(name, category_id) ==
    /\ products \subseteq products'
    /\ Cardinality(products') = Cardinality(products) + 1
    /\ \E p \in products' \ products : p.name = name /\ p.category_id = category_id

\* C13 as the specification states it: after every step every stored
\* product's category_id references a stored category; an admin POST /products
\* naming no stored category ends in a storage constraint failure and stores
\* nothing, and one naming a stored category inserts the product, whatever is
\* stored already, and returns 201.
C13_ProductCategoryAsStated ==
    [][/\ C13_Resolvable(products', categories')
       /\ resp'.op = "create_product" =>
            \A h \in Headers, n \in ProductNames, c \in CategoryIds :
              \A l \in Lenience(h) :
                create_product(h, l, n, c) /\ AdminToken(h) =>
                  IF c \notin Ids(categories)
                  THEN resp'.status = 500 /\ products' = products
                  ELSE resp'.status = 201 /\ C13_Inserted(n, c)]_vars

\* C13 with the store's answer on the id left open: the same, where the
\* request naming a stored category returns 201 exactly when the id drawn from
\* the sequence is free, and otherwise fails on product_pkey storing nothing.
C13_ProductCategory ==
    [][/\ C13_Resolvable(products', categories')
       /\ resp'.op = "create_product" =>
            \A h \in Headers, n \in ProductNames, c \in CategoryIds :
              \A l \in Lenience(h) :
                create_product(h, l, n, c) /\ AdminToken(h) =>
                  IF c \notin Ids(categories) \/ seq.product + 1 \in Ids(products)
                  THEN resp'.status = 500 /\ products' = products
                  ELSE resp'.status = 201 /\ C13_Inserted(n, c)]_vars

\* An admin's POST /products naming a stored category was refused for its id.
C13_Witness ==
    /\ resp.op = "create_product"
    /\ resp.status = 500
    /\ resp.msg = "product_pkey"
    /\ C13_Resolvable(products, categories)
    /\ added.product = {}

\* ------------------------------------------------------------------ C14
\* The users header h resolves to when lenient is the decoder's answer in the
\* tick of exp: the stored user named by a signed token that has not expired.
C14_Resolved(h, lenient) ==
    IF h.kind = "signed" /\ (now < h.exp \/ (now = h.exp /\ lenient))
    THEN { u \in users : u.id = h.user_id }
    ELSE {}

\* Every comment of table cmts references a post of psts and a user of usrs.
C14_Referenced(cmts, psts, usrs) ==
    \A c \in cmts : /\ \E p \in psts : p.id = c.post_id
                    /\ \E u \in usrs : u.id = c.user_id

\* C14: the comments table changes only by a POST /blog/posts/{id}/comments
\* whose token resolves to a stored user and whose content is a non-empty
\* text, and then by exactly one new comment carrying the path id, that user's
\* id and username and the time of insertion, the path id being the id of a
\* stored post; a request naming no stored post stores nothing; and after every
\* step every stored comment's post_id and user_id reference stored rows.
C14_Comment ==
    [][/\ C14_Referenced(comments', posts', users')
       /\ comments' # comments =>
            /\ resp'.op = "create_comment"
            /\ resp'.status = 201
       /\ resp'.op = "create_comment" =>
            \A h \in Headers, p \in PostIdArgs, content \in ContentArgs :
              \A l \in Lenience(h) :
                create_comment(h, l, p, content) =>
                  /\ p \notin { b.id : b \in posts } => comments' = comments
                  /\ resp'.status = 201 <=> comments' # comments
                  /\ comments' # comments =>
                       /\ comments \subseteq comments'
                       /\ Cardinality(comments') = Cardinality(comments) + 1
                       /\ content \notin { {}, { "" } }
                       /\ p \in { b.id : b \in posts }
                       /\ \E u \in C14_Resolved(h, l), c \in comments' \ comments :
                            /\ c.post_id = p
                            /\ c.user_id = u.id
                            /\ c.author = u.username
                            /\ c.content \in content
                            /\ c.created_at = now
                            /\ resp'.out.id = c.id]_vars

\* A comment is stored, and a later comment request naming a missing post was
\* refused by the store.
C14_Witness ==
    /\ resp.op = "create_comment"
    /\ resp.status = 500
    /\ resp.msg = "comment_post_id_fkey"
    /\ \E c \in comments : /\ c.post_id = 1
                           /\ \E u \in users : u.id = c.user_id /\ u.username = c.author

\* ------------------------------------------------------------------ C15
\* Header h resolves, under the decoder's answer lenient, to a stored user
\* with is_admin = true.
C15_ResolvesToAdmin(h, lenient) ==
    /\ h.kind = "signed"
    /\ now < h.exp \/ (now = h.exp /\ lenient)
    /\ \E u \in users : u.id = h.user_id /\ u.is_admin

C15_Guarded ==
    { "create_product", "create_category", "create_blog_post", "create_comment" }

\* C15: a guarded request answered 403 has not entered the handler body and
\* leaves the five tables (and the sequences) as they were; and a request that
\* stores a category, a product or a blog post carries a token that resolves
\* to a user with is_admin = true.
C15_GuardsFirst ==
    [][/\ resp'.op \in C15_Guarded /\ resp'.status = 403 =>
            /\ ~resp'.ran
            /\ UNCHANGED << users, seeded, added, comments, seq >>
       /\ resp'.op = "create_category" /\ categories' # categories =>
            \A h \in Headers, n \in CategoryNames : \A l \in Lenience(h) :
              create_category(h, l, n) => C15_ResolvesToAdmin(h, l)
       /\ resp'.op = "create_product" /\ products' # products =>
            \A h \in Headers, n \in ProductNames, c \in CategoryIds :
              \A l \in Lenience(h) :
                create_product(h, l, n, c) => C15_ResolvesToAdmin(h, l)
       /\ resp'.op = "create_blog_post" /\ posts' # posts =>
            \A h \in Headers, d \in PostDates, c \in PostCategories, t \in PostTags :
              \A l \in Lenience(h) :
                create_blog_post(h, l, d, c, t) => C15_ResolvesToAdmin(h, l)
       /\ (categories' # categories \/ products' # products \/ posts' # posts) =>
            \/ resp'.op \in { "create_category", "create_product", "create_blog_post" }
            \/ populate_db]_vars

\* A user who is not an administrator exists and a POST /products was answered
\* 403 for want of admin privileges, while a row stored through the API exists.
C15_Witness ==
    /\ resp.op = "create_product"
    /\ resp.status = 403
    /\ resp.msg = "Admin privileges required!"
    /\ \E u \in users : ~u.is_admin
    /\ \E t \in SeededTables : added[t] # {}

\* ------------------------------------------------------------------ C16
\* The outcome of one run of populate_db: the users table is left alone, and
\* either True is returned and the four tables hold exactly the seed rows and
\* no comment, or False is returned and the four tables are as they were.
C16_Outcome ==
    resp'.op = "populate_db" =>
      /\ users' = users
      /\ \/ /\ resp'.msg = "True"
            /\ categories' = categories_data
            /\ products' = products_data
            /\ posts' = blog_posts_data
            /\ comments' = {}
            /\ Cardinality(categories') = 7
            /\ Cardinality(products') = 16
            /\ Cardinality(posts') = 6
         \/ /\ resp'.msg = "False"
            /\ categories' = categories
            /\ products' = products
            /\ posts' = posts
            /\ comments' = comments

\* The ids populate_db gives to the rows of a table.
C16_SeedIds(rows) == { r.id : r \in rows }

\* The database holds the rows of a successful seeding.
C16_Seeded ==
    /\ categories_data \subseteq categories
    /\ products_data \subseteq products
    /\ blog_posts_data \subseteq posts

\* An admin's create of a new category, product or blog post, where created(r)
\* says when the response r is the 201 the claim promises.
C16_Creates(created(_, _)) ==
    /\ resp'.op = "create_category" =>
         \A h \in Headers, n \in CategoryNames : \A l \in Lenience(h) :
           (/\ create_category(h, l, n)
            /\ AdminToken(h)
            /\ C16_Seeded
            /\ \A c \in categories : c.name # n)
           => created("category", categories_data)
    /\ resp'.op = "create_product" =>
         \A h \in Headers, n \in ProductNames, c \in CategoryIds : \A l \in Lenience(h) :
           (/\ create_product(h, l, n, c)
            /\ AdminToken(h)
            /\ C16_Seeded
            /\ \E k \in categories : k.id = c)
           => created("product", products_data)
    /\ resp'.op = "create_blog_post" =>
         \A h \in Headers, d \in PostDates, c \in PostCategories, t \in PostTags :
           \A l \in Lenience(h) :
             (/\ create_blog_post(h, l, d, c, t)
              /\ AdminToken(h)
              /\ C16_Seeded)
             => created("blog_post", blog_posts_data)

\* The response is a 201 carrying an id that no seed row of the table has.
C16_Created(t, rows) ==
    /\ resp'.status = 201
    /\ resp'.out.id \notin C16_SeedIds(rows)

\* The same when the id drawn from the table's sequence is no seed row's id,
\* and otherwise a failure on the table's primary key.
C16_CreatedIfFree(t, rows) ==
    IF seq[t] + 1 \in C16_SeedIds(rows)
    THEN resp'.status = 500 /\ added' = added
    ELSE C16_Created(t, rows)

\* C16 as the specification states it: populate_db returns True having
\* replaced the category, product, blog post and comment tables by exactly the
\* seed rows, or False leaving them as they were, and never touches the users;
\* and on a seeded database an admin's create of a new category, product or
\* blog post returns 201 with an id distinct from every seeded row's id.
C16_SeedingAsStated ==
    [][C16_Outcome /\ C16_Creates(C16_Created)]_vars

\* C16 with the sequences taken into account: the same outcome of populate_db,
\* and the admin's create returns 201 exactly when the id drawn from the
\* sequence is not a seeded one.
C16_Seeding ==
    [][C16_Outcome /\ C16_Creates(C16_CreatedIfFree)]_vars

\* On the seeded database, whose category sequence had never been drawn from,
\* an admin's POST /categories with a new name was refused for its id.
C16_Witness ==
    /\ resp.op = "create_category"
    /\ resp.status = 500
    /\ resp.msg = "category_pkey"
    /\ seq.category = 1
    /\ categories = categories_data
    /\ \E u \in users : u.is_admin

====
